---- MODULE Spec2Model ----
(***************************************************************************)
(* WastingTimeBlocker: the directive extractor (BlockingApps/task.py), the *)
(* task registry and recurrence expansion (BlockingApps/taskParser.py),    *)
(* the enforcement backend (BlockingApps/blocker.py) and the polling loop  *)
(* with its cancellation listener (main.py).                               *)
(*                                                                         *)
(* Text is modelled character by character: a Python str is a sequence of  *)
(* one-character strings, and str.find, slicing, replace, strip and split  *)
(* are computed as CPython computes them (0-based indices, -1 for "not     *)
(* found", negative slice bounds counted from the end).                    *)
(***************************************************************************)
EXTENDS Integers, Sequences, FiniteSets, TLC

-----------------------------------------------------------------------------
(* Python str primitives *)

\* normalisation of a slice/find bound against a string of length n
ClampIndex(i, n) ==
  IF i < 0 THEN (IF i + n < 0 THEN 0 ELSE i + n)
  ELSE IF i > n THEN n ELSE i

\* s[i:i+len(sub)] == sub, i 0-based
StartsWithAt(s, sub, i) ==
  /\ i + Len(sub) <= Len(s)
  /\ \A k \in 1..Len(sub) : s[i + k] = sub[k]

\* the least element of a non-empty set of integers
Least(S) == CHOOSE i \in S : \A j \in S : i <= j
Greatest(S) == CHOOSE i \in S : \A j \in S : i >= j

FindFrom(s, sub, i) ==
  LET found == {j \in i..(Len(s) - Len(sub)) : StartsWithAt(s, sub, j)}
  IN  IF found = {} THEN -1 ELSE Least(found)

\* str.find(sub, start)
Find(s, sub, start) == FindFrom(s, sub, ClampIndex(start, Len(s)))

\* sub in s
Contains(s, sub) == Find(s, sub, 0) # -1

\* s[i:j]
Slice(s, i, j) ==
  LET a == ClampIndex(i, Len(s))
      b == ClampIndex(j, Len(s))
  IN  IF a >= b THEN <<>> ELSE SubSeq(s, a + 1, b)

RECURSIVE ReplaceFrom(_, _, _, _)
ReplaceFrom(s, old, new, i) ==
  LET j == Find(s, old, i)
  IN  IF j = -1 THEN Slice(s, i, Len(s))
      ELSE Slice(s, i, j) \o new \o ReplaceFrom(s, old, new, j + Len(old))

\* str.replace(old, new), old non-empty
Replace(s, old, new) == ReplaceFrom(s, old, new, 0)

Whitespace == {" ", "\n", "\t", "\r"}

\* str.strip()
Strip(s) ==
  LET kept == {i \in 1..Len(s) : s[i] \notin Whitespace}
  IN  IF kept = {} THEN <<>> ELSE SubSeq(s, Least(kept), Greatest(kept))

UpperToLower ==
  [c \in {"A", "B", "X", "Y"} |->
     CASE c = "A" -> "a" [] c = "B" -> "b" [] c = "X" -> "x" [] c = "Y" -> "y"]

\* str.lower()
Lower(s) ==
  [i \in 1..Len(s) |-> IF s[i] \in DOMAIN UpperToLower THEN UpperToLower[s[i]] ELSE s[i]]

RECURSIVE SplitFrom(_, _, _)
SplitFrom(s, sep, i) ==
  LET j == Find(s, sep, i)
  IN  IF j = -1 THEN <<Slice(s, i, Len(s))>>
      ELSE <<Slice(s, i, j)>> \o SplitFrom(s, sep, j + Len(sep))

\* str.split(sep): always at least one piece
Split(s, sep) == SplitFrom(s, sep, 0)

-----------------------------------------------------------------------------
(* BlockingApps/task.py *)

Marker == <<"#", "#", "b", "l", "o", "c", "k", "i", "n", "g">>
AppsKey == <<"b", "l", "o", "c", "k", "_", "a", "p", "p", "s", ":">>
WebsitesKey ==
  <<"b", "l", "o", "c", "k", "_", "w", "e", "b", "s", "i", "t", "e", "s", ":">>
Semicolon == <<";">>
Comma == <<",">>

\* BeautifulSoup(text, "html.parser").get_text() on text whose only markup is
\* well-formed tags: every "<...>" span is dropped, the rest is kept.
RECURSIVE get_text(_)
get_text(text) ==
  LET lt == Find(text, <<"<">>, 0)
      gt == Find(text, <<">">>, lt + 1)
  IN  IF lt = -1 \/ gt = -1 THEN text
      ELSE Slice(text, 0, lt) \o get_text(Slice(text, gt + 1, Len(text)))

clean_description(text) ==
  Replace(
    Replace(
      Replace(
        Replace(get_text(text), <<"<", "b", "r", ">">>, <<"\\", "n">>),
        <<"\r">>, <<>>),
      <<"\\", "n">>, <<" ">>),
    <<"\\">>, <<" ">>)

EmptyInfo == [block_apps |-> <<>>, block_websites |-> <<>>]

\* [string.strip().lower() for string in value.split(",")]
StripLowerEach(value) ==
  LET parts == Split(value, Comma)
  IN  [i \in 1..Len(parts) |-> Lower(Strip(parts[i]))]

\* desc[begin_index:end_index].replace("##blocking", "").strip()
desc_important_part(desc) ==
  LET begin_index == Find(desc, Marker, 0)
      end_index == Find(desc, Marker, begin_index + 1)
  IN  Strip(Replace(Slice(desc, begin_index, end_index), Marker, <<>>))

desc_block_apps(part) ==
  Strip(Replace(Replace(
    Slice(part, Find(part, AppsKey, 0), Find(part, Semicolon, 0)),
    AppsKey, <<>>), Semicolon, <<>>))

desc_block_websites(part) ==
  LET first_index == Find(part, WebsitesKey, 0)
  IN  Strip(Replace(Replace(
        Slice(part, first_index, Find(part, Semicolon, first_index)),
        WebsitesKey, <<>>), Semicolon, <<>>))

\* Task.extract_blocking_info: the ValueError raised for an empty block is
\* caught by the bare except and yields the empty directive.
extract_blocking_info(desc) ==
  LET d == Lower(clean_description(desc))
      part == desc_important_part(d)
  IN  IF part = <<>> THEN EmptyInfo
      ELSE [block_apps |-> StripLowerEach(desc_block_apps(part)),
            block_websites |-> StripLowerEach(desc_block_websites(part))]

-----------------------------------------------------------------------------
(* Time.  One time unit is the polling interval (CHECK_EVERY seconds); a    *)
(* calendar day is DayLen units, day 0 is a Monday.                         *)

DayLen == 4
MaxElapsed == 4
MaxFeed == 2
MaxPieces == 5
MaxOps == 3

\* datetime.date()
date(t) == t \div DayLen
\* datetime.weekday(): Monday is 0
weekday(t) == date(t) % 7
\* the instant at which the program is started: 00:00 on the Tuesday
StartNow == DayLen
MaxNow == StartNow + MaxElapsed

-----------------------------------------------------------------------------
(* BlockingApps/task.py: Task *)

Task(title, start_time, end_time, description, repetition) ==
  [title |-> title, start_time |-> start_time, end_time |-> end_time,
   description |-> description, repetition |-> repetition,
   blocking_info |-> extract_blocking_info(description)]

\* as if the test were the one of main.py line 94, the non-empty dictionary
does_block_anything_dict(task) == DOMAIN task.blocking_info # {}

does_block_anything(task) ==
  /\ task.blocking_info.block_apps # <<>>
  /\ task.blocking_info.block_websites # <<>>

is_active(task, t) == task.start_time <= t /\ t <= task.end_time

-----------------------------------------------------------------------------
(* BlockingApps/taskParser.py: Parser *)

NoRule == "None"
Daily == "FREQ=DAILY"
Weekly == "FREQ=WEEKLY"
\* a rule string dateutil.rrule.rrulestr rejects with ValueError
Malformed == "FREQ=DAYLY"

\* the interval of a rule rrulestr accepts
Period(rule) == IF rule = Weekly THEN 7 * DayLen ELSE DayLen

\* Parser.get_tasks._get_this_weeks_sunday
get_this_weeks_sunday(t) == t + (((6 - weekday(t)) % 7) + 7) * DayLen

\* as if the horizon itself were excluded (inc=False)
RECURSIVE between_exclusive(_, _, _)
between_exclusive(occ, horizon, period) ==
  IF occ >= horizon THEN <<>>
  ELSE <<occ>> \o between_exclusive(occ + period, horizon, period)

\* rule.between(start_time, horizon, inc=True): the rule's instants
\* start_time, start_time + period, ... that are <= horizon, ascending
RECURSIVE between(_, _, _)
between(occ, horizon, period) ==
  IF occ > horizon THEN <<>>
  ELSE <<occ>> \o between(occ + period, horizon, period)

\* the tasks one event of the feed contributes
expand(task_args, t) ==
  IF task_args.repetition = NoRule
  THEN <<Task(task_args.title, task_args.start_time, task_args.end_time,
              task_args.description, task_args.repetition)>>
  ELSE LET occurrences == between(task_args.start_time, get_this_weeks_sunday(t),
                                  Period(task_args.repetition))
       IN  [k \in 1..Len(occurrences) |->
              Task(task_args.title, occurrences[k],
                   occurrences[k] + (task_args.end_time - task_args.start_time),
                   task_args.description, task_args.repetition)]

RECURSIVE get_tasks(_, _)
get_tasks(task_args_list, t) ==
  IF task_args_list = <<>> THEN <<>>
  ELSE expand(Head(task_args_list), t) \o get_tasks(Tail(task_args_list), t)

\* as if a rule that cannot be parsed were passed over
rule_fails_ignored(task_args_list) == FALSE

\* rrulestr raises for some event of the feed
rule_fails(task_args_list) ==
  \E k \in 1..Len(task_args_list) : task_args_list[k].repetition = Malformed

\* requests.get(url).status_code != 200 raises ConnectionError
request_fails(status_code) == status_code # 200

\* as if only the start of a task were compared with today
RECURSIVE filter_task_by_start(_, _)
filter_task_by_start(ts, t) ==
  IF ts = <<>> THEN <<>>
  ELSE (IF date(Head(ts).start_time) = date(t) THEN <<Head(ts)>> ELSE <<>>)
       \o filter_task_by_start(Tail(ts), t)

\* Parser.filter_task_by_today
RECURSIVE filter_task_by_today(_, _)
filter_task_by_today(ts, t) ==
  IF ts = <<>> THEN <<>>
  ELSE LET task == Head(ts)
           today == date(t)
       IN  (IF date(task.start_time) = today \/ date(task.end_time) = today
            THEN <<task>> ELSE <<>>) \o filter_task_by_today(Tail(ts), t)

-----------------------------------------------------------------------------
(* BlockingApps/blocker.py *)

redirect_ip == <<"1", "2", "7", ".", "0", ".", "0", ".", "1">>
Newline == <<"\n">>

SYSTEM_MAPPING ==
  [s \in {"windows", "darwin", "linux"} |->
     IF s = "windows" THEN "Windows_Blocker" ELSE "MAC_Blocker"]

\* what subprocess.run does for one app: it returns, it raises an exception
\* of the kind "except Exception: continue" passes over (CalledProcessError
\* when no such process runs), or it raises FileNotFoundError because the
\* kill command does not exist
KillOutcomes == {"ok", "CalledProcessError", "FileNotFoundError"}

\* as if every failure of the kill command were raised
block_apps_unchecked(outcomes) ==
  IF \E k \in 1..Len(outcomes) : outcomes[k] # "ok"
  THEN "SystemError" ELSE "returned"

\* Windows_Blocker.block_apps and MAC_Blocker.block_apps, given the outcome
\* of the kill command for each app: how the call ends
block_apps(outcomes) ==
  IF \E k \in 1..Len(outcomes) : outcomes[k] = "FileNotFoundError"
  THEN "SystemError" ELSE "returned"

\* hosts_file.write(f"\n{self.redirect_ip} {site}")
Entry(site) == Newline \o redirect_ip \o <<" ">> \o site

\* Windows_Blocker.block_websites: every site is appended
RECURSIVE windows_block_websites(_, _)
windows_block_websites(content, websites_to_block) ==
  IF websites_to_block = <<>> THEN content
  ELSE windows_block_websites(content \o Entry(Head(websites_to_block)),
                              Tail(websites_to_block))

\* MAC_Blocker.block_websites: a site is appended unless it occurs in the
\* content that was read when the file was opened
RECURSIVE mac_appended(_, _)
mac_appended(content, websites_to_block) ==
  IF websites_to_block = <<>> THEN <<>>
  ELSE (IF Contains(content, Head(websites_to_block)) THEN <<>>
        ELSE Entry(Head(websites_to_block)))
       \o mac_appended(content, Tail(websites_to_block))

mac_block_websites(content, websites_to_block) ==
  content \o mac_appended(content, websites_to_block)

\* Blocker.block_websites
block_websites(sys, content, websites_to_block) ==
  IF SYSTEM_MAPPING[sys] = "Windows_Blocker"
  THEN windows_block_websites(content, websites_to_block)
  ELSE mac_block_websites(content, websites_to_block)

\* the sites block_websites writes an entry for
RECURSIVE written_sites(_, _, _)
written_sites(sys, content, websites_to_block) ==
  IF websites_to_block = <<>> THEN {}
  ELSE (IF SYSTEM_MAPPING[sys] = "MAC_Blocker"
           /\ Contains(content, Head(websites_to_block))
        THEN {} ELSE {Head(websites_to_block)})
       \cup written_sites(sys, content, Tail(websites_to_block))

\* file.readlines(): the lines with their terminators
RECURSIVE readlines(_)
readlines(content) ==
  LET nl == Find(content, Newline, 0)
  IN  IF content = <<>> THEN <<>>
      ELSE IF nl = -1 THEN <<content>>
      ELSE <<Slice(content, 0, nl + 1)>>
           \o readlines(Slice(content, nl + 1, Len(content)))

\* as if a line were compared with the site instead of searched for it
keeps_line_equal(line, websites_to_unblock) ==
  ~ \E k \in 1..Len(websites_to_unblock) : line = websites_to_unblock[k]

\* not any(site in line for site in websites_to_unblock)
keeps_line(line, websites_to_unblock) ==
  ~ \E k \in 1..Len(websites_to_unblock) : Contains(line, websites_to_unblock[k])

RECURSIVE write_kept(_, _)
write_kept(lines, websites_to_unblock) ==
  IF lines = <<>> THEN <<>>
  ELSE (IF keeps_line(Head(lines), websites_to_unblock) THEN Head(lines) ELSE <<>>)
       \o write_kept(Tail(lines), websites_to_unblock)

\* Windows_Blocker.unblock_website and MAC_Blocker.unblock_website
unblock_website(content, websites_to_unblock) ==
  write_kept(readlines(content), websites_to_unblock)

-----------------------------------------------------------------------------
(* main.py *)

RECURSIVE first_match(_, _, _)
first_match(ts, t, i) ==
  IF i > Len(ts) THEN 0
  ELSE IF is_active(ts[i], t) /\ does_block_anything(ts[i]) THEN i
  ELSE first_match(ts, t, i + 1)

RECURSIVE last_match(_, _, _)
last_match(ts, t, i) ==
  IF i < 1 THEN 0
  ELSE IF is_active(ts[i], t) /\ does_block_anything(ts[i]) THEN i
  ELSE last_match(ts, t, i - 1)

\* as if the loop kept the last match instead of returning the first
get_active_task_last(ts, t) == last_match(ts, t, Len(ts))

\* get_active_task: the index of the returned task, 0 for None
get_active_task(ts, t) == first_match(ts, t, 1)

-----------------------------------------------------------------------------
(* The calendar feed: the events the run may be given *)

Str_a == <<"a">>
Str_b == <<"b">>
Site_xy == <<"x", ".", "y">>
Site_axy == <<"a", "x", ".", "y">>
Space == <<" ">>

\* "block_apps: <app>;" and "block_websites: <site>;"
AppsClause(app) == AppsKey \o Space \o app \o Semicolon
WebsitesClause(site) == WebsitesKey \o Space \o site \o Semicolon
\* "##blocking <body> ##blocking"
Block(body) == Marker \o Space \o body \o Space \o Marker

DescBoth == Block(AppsClause(Str_a) \o Space \o WebsitesClause(Site_xy))
DescBothOther == Block(AppsClause(Str_b) \o Space \o WebsitesClause(Site_axy))
DescAppsOnly == Block(AppsClause(Str_a))
DescWebsitesOnly == Block(WebsitesClause(Site_xy))
DescNoBlock == <<"z">>

Event(title, from, to, description, repetition) ==
  [title |-> title, start_time |-> StartNow + from, end_time |-> StartNow + to,
   description |-> description, repetition |-> repetition]

Events ==
  { Event("A", 1, 2, DescBoth, NoRule),
    Event("B", 0, 3, DescBothOther, NoRule),
    Event("C", 2, 3, DescAppsOnly, NoRule),
    Event("D", 1, 2, DescWebsitesOnly, NoRule),
    Event("E", -1, 3, DescNoBlock, NoRule),
    Event("F", 1 - DayLen, 2 - DayLen, DescBoth, Daily),
    Event("G", 1, 2, DescBoth, Malformed) }

Feeds == UNION { [1..n -> Events] : n \in 0..MaxFeed }

\* "linux" is served by the same blocker as "darwin"
Systems == {"windows", "darwin"}

InitialHosts == redirect_ip \o Space
                \o <<"l", "o", "c", "a", "l", "h", "o", "s", "t">> \o Newline

-----------------------------------------------------------------------------
VARIABLES
  system,        \* platform.system().lower()
  status_code,   \* the status of the response to requests.get
  feed,          \* the events of the fetched calendar
  hosts,         \* the content of the hosts file
  now,           \* the clock
  pc,            \* main: the line it is at
  tasks,         \* main: tasks
  current_task,  \* main: current_task, an index of tasks, 0 for None
  active_task,   \* main: active_task, an index of tasks, 0 for None
  cleanup_i,     \* unblock_all_tasks: the index of the next task
  RUNNING,       \* the module's global flag
  listener,      \* the thread running _check_input_in_background
  cmds,          \* the backend commands issued by the tick in progress, each
                 \*   block_apps with the outcomes of its kill commands
  issued,        \* every <<command, task>> the loop has issued
  cleanup_log,   \* the unblock_websites calls unblock_all_tasks has made
  written,       \* the sites block_websites has written an entry for
  fault,         \* the exception that ended the loop, if any
  desc,          \* the extractor on its own: its input
  info,          \*   its result
  ex_pc          \*   and its position

inputs == <<system, status_code, feed>>
extractor == <<desc, info, ex_pc>>
history == <<cmds, issued, cleanup_log, written, fault>>
vars == <<system, status_code, feed, hosts, now, pc, tasks, current_task,
          active_task, cleanup_i, RUNNING, listener, cmds, issued,
          cleanup_log, written, fault, desc, info, ex_pc>>

Init ==
  /\ system \in Systems
  /\ status_code \in {200, 404}
  /\ feed \in Feeds
  /\ hosts = InitialHosts
  /\ now = StartNow
  /\ pc = "L80"
  /\ tasks = <<>>
  /\ current_task = 0
  /\ active_task = 0
  /\ cleanup_i = 1
  /\ RUNNING = TRUE
  /\ listener = "not_started"
  /\ cmds = <<>>
  /\ issued = {}
  /\ cleanup_log = <<>>
  /\ written = {}
  /\ fault = "none"
  /\ desc = <<>>
  /\ info = EmptyInfo
  /\ ex_pc = "idle"

websites_of(i) == tasks[i].blocking_info.block_websites
apps_of(i) == tasks[i].blocking_info.block_apps

\* lines 80-86: the feed is fetched and expanded before the thread is started
\* and before the try block is entered, so a failure leaves main at once
Startup ==
  /\ pc = "L80"
  /\ IF request_fails(status_code) \/ rule_fails(feed)
     THEN /\ pc' = "raised"
          /\ UNCHANGED <<tasks, listener>>
     ELSE /\ tasks' = filter_task_by_today(get_tasks(feed, now), now)
          /\ listener' = "waiting"
          /\ pc' = "L88"
  /\ current_task' = 0
  /\ UNCHANGED <<inputs, hosts, now, active_task, cleanup_i, RUNNING, history,
                 extractor>>

\* as if the flag were read once, before the loop
While_stale ==
  /\ pc = "L88"
  /\ pc' = "L90"
  /\ cmds' = <<>>
  /\ cleanup_i' = 1
  /\ UNCHANGED <<inputs, hosts, now, tasks, current_task, active_task, RUNNING,
                 listener, issued, cleanup_log, written,
                 fault, extractor>>

\* line 88: while RUNNING
While ==
  /\ pc = "L88"
  /\ IF RUNNING THEN pc' = "L90" /\ cmds' = <<>>
                ELSE pc' = "L110" /\ cmds' = cmds
  /\ cleanup_i' = 1
  /\ UNCHANGED <<inputs, hosts, now, tasks, current_task, active_task, RUNNING,
                 listener, issued, cleanup_log, written,
                 fault, extractor>>

\* line 90
GetActive ==
  /\ pc = "L90"
  /\ active_task' = get_active_task(tasks, now)
  /\ pc' = "L92"
  /\ UNCHANGED <<inputs, hosts, now, tasks, current_task, cleanup_i, RUNNING,
                 listener, cmds, issued, cleanup_log, written, fault,
                 extractor>>

\* as if the test of line 99 came before the test of line 92
Branch_unblock_first ==
  /\ pc = "L92"
  /\ pc' = IF current_task # 0 /\ ~ is_active(tasks[current_task], now)
           THEN "L101"
           ELSE IF active_task # 0 /\ active_task # current_task THEN "L95"
           ELSE IF current_task # 0 THEN "L105"
           ELSE "L107"
  /\ UNCHANGED <<inputs, hosts, now, tasks, current_task, active_task,
                 cleanup_i, RUNNING, listener, history, extractor>>

\* lines 92, 99, 104: the branch of the tick
Branch ==
  /\ pc = "L92"
  /\ pc' = IF active_task # 0 /\ active_task # current_task THEN "L95"
           ELSE IF current_task # 0 /\ ~ is_active(tasks[current_task], now)
                THEN "L101"
           ELSE IF current_task # 0 THEN "L105"
           ELSE "L107"
  /\ UNCHANGED <<inputs, hosts, now, tasks, current_task, active_task,
                 cleanup_i, RUNNING, listener, history, extractor>>

\* line 95: blocker.block_apps(active_task.blocking_info["block_apps"])
BlockAppsNew ==
  /\ pc = "L95"
  /\ \E outcomes \in [1..Len(apps_of(active_task)) -> KillOutcomes] :
       /\ cmds' = Append(cmds, [op |-> "block_apps", arg |-> apps_of(active_task),
                                outcomes |-> outcomes])
       /\ IF block_apps(outcomes) = "returned"
          THEN pc' = "L96" /\ fault' = fault
          ELSE pc' = "L113" /\ fault' = "SystemError"
  /\ issued' = issued \cup {<<"block_apps", active_task>>}
  /\ UNCHANGED <<inputs, hosts, now, tasks, current_task, active_task,
                 cleanup_i, RUNNING, listener, cleanup_log, written, extractor>>

\* line 96: blocker.block_websites(active_task.blocking_info["block_websites"])
BlockWebsites ==
  /\ pc = "L96"
  /\ hosts' = block_websites(system, hosts, websites_of(active_task))
  /\ written' = written \cup written_sites(system, hosts, websites_of(active_task))
  /\ cmds' = Append(cmds, [op |-> "block_websites", arg |-> websites_of(active_task),
                            outcomes |-> <<>>])
  /\ issued' = issued \cup {<<"block_websites", active_task>>}
  /\ pc' = "L97"
  /\ UNCHANGED <<inputs, now, tasks, current_task, active_task, cleanup_i,
                 RUNNING, listener, cleanup_log, fault,
                 extractor>>

\* line 97: current_task = active_task
SetCurrent ==
  /\ pc = "L97"
  /\ current_task' = active_task
  /\ pc' = "L107"
  /\ UNCHANGED <<inputs, hosts, now, tasks, active_task, cleanup_i, RUNNING,
                 listener, history, extractor>>

\* line 101: blocker.unblock_websites(current_task.blocking_info["block_websites"])
UnblockCurrent ==
  /\ pc = "L101"
  /\ hosts' = unblock_website(hosts, websites_of(current_task))
  /\ cmds' = Append(cmds, [op |-> "unblock_websites", arg |-> websites_of(current_task),
                            outcomes |-> <<>>])
  /\ issued' = issued \cup {<<"unblock_websites", current_task>>}
  /\ pc' = "L102"
  /\ UNCHANGED <<inputs, now, tasks, current_task, active_task, cleanup_i,
                 RUNNING, listener, cleanup_log, written,
                 fault, extractor>>

\* line 102: current_task = None
ClearCurrent ==
  /\ pc = "L102"
  /\ current_task' = 0
  /\ pc' = "L107"
  /\ UNCHANGED <<inputs, hosts, now, tasks, active_task, cleanup_i, RUNNING,
                 listener, history, extractor>>

\* as if the steady state re-asserted the websites as well
BlockAppsAgain_and_websites ==
  /\ pc = "L105"
  /\ cmds' = cmds \o <<[op |-> "block_apps", arg |-> apps_of(current_task),
                        outcomes |-> [k \in 1..Len(apps_of(current_task)) |-> "ok"]],
                       [op |-> "block_websites", arg |-> websites_of(current_task),
                        outcomes |-> <<>>]>>
  /\ hosts' = block_websites(system, hosts, websites_of(current_task))
  /\ written' = written \cup written_sites(system, hosts, websites_of(current_task))
  /\ issued' = issued \cup {<<"block_apps", current_task>>}
  /\ pc' = "L107"
  /\ UNCHANGED <<inputs, now, tasks, current_task, active_task,
                 cleanup_i, RUNNING, listener, cleanup_log, fault, extractor>>

\* line 105: blocker.block_apps(current_task.blocking_info["block_apps"])
BlockAppsAgain ==
  /\ pc = "L105"
  /\ \E outcomes \in [1..Len(apps_of(current_task)) -> KillOutcomes] :
       /\ cmds' = Append(cmds, [op |-> "block_apps", arg |-> apps_of(current_task),
                                outcomes |-> outcomes])
       /\ IF block_apps(outcomes) = "returned"
          THEN pc' = "L107" /\ fault' = fault
          ELSE pc' = "L113" /\ fault' = "SystemError"
  /\ issued' = issued \cup {<<"block_apps", current_task>>}
  /\ UNCHANGED <<inputs, hosts, now, tasks, current_task, active_task,
                 cleanup_i, RUNNING, listener, cleanup_log, written, extractor>>

\* line 107: time.sleep(CHECK_EVERY); the clock stops at MaxNow
Sleep ==
  /\ pc = "L107"
  /\ now' = IF now < MaxNow THEN now + 1 ELSE now
  /\ pc' = "L88"
  /\ UNCHANGED <<inputs, hosts, tasks, current_task, active_task, cleanup_i,
                 RUNNING, listener, history, extractor>>

LoopBody == {"L90", "L92", "L95", "L96", "L97", "L101", "L102", "L105", "L107"}

\* a statement of the loop body raises an Exception: control passes to the
\* handler of line 111
Raise ==
  /\ pc \in LoopBody
  /\ fault' = "Exception"
  /\ pc' = "L113"
  /\ cleanup_i' = 1
  /\ UNCHANGED <<inputs, hosts, now, tasks, current_task, active_task, RUNNING,
                 listener, cmds, issued, cleanup_log, written, extractor>>

\* as if only the current task were unblocked on exit
UnblockAll_current ==
  /\ pc \in {"L110", "L113"}
  /\ IF current_task # 0 /\ cleanup_i = 1
     THEN /\ hosts' = unblock_website(hosts, websites_of(current_task))
          /\ cleanup_log' = Append(cleanup_log, [task |-> current_task,
                                                 arg |-> websites_of(current_task)])
          /\ cleanup_i' = cleanup_i + 1
          /\ pc' = pc
     ELSE /\ pc' = "done"
          /\ UNCHANGED <<hosts, cleanup_log, cleanup_i>>
  /\ UNCHANGED <<inputs, now, tasks, current_task, active_task, RUNNING,
                 listener, cmds, issued, written, fault,
                 extractor>>

\* as if the cleanup of line 110 were followed by the one of line 113
UnblockAll_twice ==
  /\ pc \in {"L110", "L113"}
  /\ IF cleanup_i <= Len(tasks)
     THEN /\ hosts' = unblock_website(hosts, websites_of(cleanup_i))
          /\ cleanup_log' = Append(cleanup_log, [task |-> cleanup_i,
                                                 arg |-> websites_of(cleanup_i)])
          /\ cleanup_i' = cleanup_i + 1
          /\ pc' = pc
     ELSE /\ pc' = IF pc = "L110" THEN "L113" ELSE "done"
          /\ cleanup_i' = IF pc = "L110" THEN 1 ELSE cleanup_i
          /\ UNCHANGED <<hosts, cleanup_log>>
  /\ UNCHANGED <<inputs, now, tasks, current_task, active_task, RUNNING,
                 listener, cmds, issued, written, fault,
                 extractor>>

\* unblock_all_tasks, one iteration of its loop (lines 69-72), entered from
\* line 110 or from line 113; main returns after the last one
UnblockAll ==
  /\ pc \in {"L110", "L113"}
  /\ IF cleanup_i <= Len(tasks)
     THEN /\ hosts' = unblock_website(hosts, websites_of(cleanup_i))
          /\ cleanup_log' = Append(cleanup_log, [task |-> cleanup_i, arg |-> websites_of(cleanup_i)])
          /\ cleanup_i' = cleanup_i + 1
          /\ pc' = pc
     ELSE /\ pc' = "done"
          /\ UNCHANGED <<hosts, cleanup_log, cleanup_i>>
  /\ UNCHANGED <<inputs, now, tasks, current_task, active_task, RUNNING,
                 listener, cmds, issued, written, fault,
                 extractor>>

\* _check_input_in_background: input() returns and RUNNING is cleared
StopTrigger ==
  /\ listener = "waiting"
  /\ RUNNING' = FALSE
  /\ listener' = "finished"
  /\ UNCHANGED <<inputs, hosts, now, pc, tasks, current_task, active_task,
                 cleanup_i, cmds, issued, cleanup_log, written,
                 fault, extractor>>

\* time passes while main is between two statements
AdvanceClock ==
  /\ pc \in LoopBody \cup {"L88", "L110", "L113"}
  /\ now < MaxNow
  /\ now' = now + 1
  /\ UNCHANGED <<inputs, hosts, pc, tasks, current_task, active_task, cleanup_i,
                 RUNNING, listener, history, extractor>>

Main ==
  \/ Startup \/ While \/ GetActive \/ Branch \/ BlockAppsNew \/ BlockWebsites
  \/ SetCurrent \/ UnblockCurrent \/ ClearCurrent \/ BlockAppsAgain \/ Sleep
  \/ UnblockAll

Next == Main \/ Raise \/ StopTrigger \/ AdvanceClock

Spec == Init /\ [][Next]_vars

Positions == LoopBody \cup {"L80", "L88", "L110", "L113", "done", "raised"}

\* the main thread moves: it is at a statement and its position changes
MainMoves ==
  /\ pc \notin {"done", "raised"}
  /\ pc' \in Positions
  /\ cleanup_i' \in {1, cleanup_i, cleanup_i + 1}

\* the main thread is scheduled as long as it has a statement to execute, and
\* every call it makes returns
FairSpec == Spec /\ WF_<<pc, cleanup_i>>(MainMoves)

-----------------------------------------------------------------------------
(* The directive extractor on its own: a Task is constructed from a          *)
(* description put together from up to MaxPieces pieces.                     *)

Pieces ==
  { Marker,
    <<"B", "l", "o", "c", "k", "_", "a", "p", "p", "s", ":", " ", "a", ",", " ", "B", ";">>,
    WebsitesClause(Site_xy),
    Space,
    <<"\\", "n">>,
    <<"<", "b", "r", ">">> }

RECURSIVE Concat(_)
Concat(pieces) == IF pieces = <<>> THEN <<>> ELSE Head(pieces) \o Concat(Tail(pieces))

Descriptions == { Concat(ps) : ps \in UNION { [1..n -> Pieces] : n \in 0..MaxPieces } }

InitExtract ==
  /\ system = "darwin"
  /\ status_code = 200
  /\ feed = <<>>
  /\ hosts = InitialHosts
  /\ now = StartNow
  /\ pc = "L80"
  /\ tasks = <<>>
  /\ current_task = 0
  /\ active_task = 0
  /\ cleanup_i = 1
  /\ RUNNING = TRUE
  /\ listener = "not_started"
  /\ cmds = <<>>
  /\ issued = {}
  /\ cleanup_log = <<>>
  /\ written = {}
  /\ fault = "none"
  /\ desc \in Descriptions
  /\ info = EmptyInfo
  /\ ex_pc = "call"

\* Task.__init__, line 31: self.blocking_info = self.extract_blocking_info(description)
Extract ==
  /\ ex_pc = "call"
  /\ info' = extract_blocking_info(desc)
  /\ ex_pc' = "returned"
  /\ UNCHANGED <<inputs, hosts, now, pc, tasks, current_task, active_task,
                 cleanup_i, RUNNING, listener, history, desc>>

NextExtract == Extract

SpecExtract == InitExtract /\ [][NextExtract]_vars

-----------------------------------------------------------------------------
(* The parser on its own: line 83 of main.py, run at any instant of a week   *)
(* on a feed of templates with and without recurrence rules.                 *)

ParserEvents ==
  { Event("F", 1 - DayLen, 2 - DayLen, DescBoth, Daily),
    Event("W", 2 - DayLen, 1, DescBothOther, Weekly),
    Event("H", 0, DayLen, DescAppsOnly, Daily),
    Event("L", 20 * DayLen, 20 * DayLen + 1, DescBoth, Daily),
    Event("A", 1, 2, DescBoth, NoRule),
    Event("S", -1, DayLen + 1, DescBoth, NoRule),
    Event("G", 1, 2, DescBoth, Malformed) }

ParserFeeds == UNION { [1..n -> ParserEvents] : n \in 0..MaxFeed }

\* every time of day of every weekday of one week
ParserNows == 0..(7 * DayLen - 1)

InitParser ==
  /\ system = "darwin"
  /\ status_code = 200
  /\ feed \in ParserFeeds
  /\ hosts = InitialHosts
  /\ now \in ParserNows
  /\ pc = "get_tasks"
  /\ tasks = <<>>
  /\ current_task = 0
  /\ active_task = 0
  /\ cleanup_i = 1
  /\ RUNNING = TRUE
  /\ listener = "not_started"
  /\ cmds = <<>>
  /\ issued = {}
  /\ cleanup_log = <<>>
  /\ written = {}
  /\ fault = "none"
  /\ desc = <<>>
  /\ info = EmptyInfo
  /\ ex_pc = "idle"

\* parser.get_tasks(ICAL_URL): tasks holds the list it returns
GetTasks ==
  /\ pc = "get_tasks"
  /\ IF request_fails(status_code) \/ rule_fails(feed)
     THEN pc' = "raised" /\ tasks' = tasks
     ELSE pc' = "filter_task_by_today" /\ tasks' = get_tasks(feed, now)
  /\ UNCHANGED <<inputs, hosts, now, current_task, active_task,
                 cleanup_i, RUNNING, listener, history, extractor>>

\* parser.filter_task_by_today(...)
FilterToday ==
  /\ pc = "filter_task_by_today"
  /\ tasks' = filter_task_by_today(tasks, now)
  /\ pc' = "filtered"
  /\ UNCHANGED <<inputs, hosts, now, current_task, active_task,
                 cleanup_i, RUNNING, listener, history, extractor>>

NextParser == GetTasks \/ FilterToday

SpecParser == InitParser /\ [][NextParser]_vars

-----------------------------------------------------------------------------
(* The backend on its own: up to MaxOps calls of Blocker.block_websites and  *)
(* Blocker.unblock_websites, in any order, with website lists the directives *)
(* of the feed yield.                                                        *)

\* ["x.y"], ["ax.y"], ["x.y", "ax.y"], and [""], the list of a directive
\* that names no website
SiteLists == { <<Site_xy>>, <<Site_axy>>, <<Site_xy, Site_axy>>, << <<>> >> }

InitBackend ==
  /\ system \in Systems
  /\ status_code = 200
  /\ feed = <<>>
  /\ hosts = InitialHosts
  /\ now = StartNow
  /\ pc = "backend"
  /\ tasks = <<>>
  /\ current_task = 0
  /\ active_task = 0
  /\ cleanup_i = 1
  /\ RUNNING = TRUE
  /\ listener = "not_started"
  /\ cmds = <<>>
  /\ issued = {}
  /\ cleanup_log = <<>>
  /\ written = {}
  /\ fault = "none"
  /\ desc = <<>>
  /\ info = EmptyInfo
  /\ ex_pc = "idle"

\* Blocker.block_websites(websites_to_block)
CallBlockWebsites ==
  /\ pc = "backend"
  /\ Len(cmds) < MaxOps
  /\ \E sites \in SiteLists :
       /\ hosts' = block_websites(system, hosts, sites)
       /\ written' = written \cup written_sites(system, hosts, sites)
       /\ cmds' = Append(cmds, [op |-> "block_websites", arg |-> sites,
                                outcomes |-> <<>>])
  /\ UNCHANGED <<inputs, now, pc, tasks, current_task, active_task,
                 cleanup_i, RUNNING, listener, issued, cleanup_log, fault,
                 extractor>>

\* Blocker.unblock_websites(websites_to_unblock)
CallUnblockWebsites ==
  /\ pc = "backend"
  /\ Len(cmds) < MaxOps
  /\ \E sites \in SiteLists :
       /\ hosts' = unblock_website(hosts, sites)
       /\ cmds' = Append(cmds, [op |-> "unblock_websites", arg |-> sites,
                                outcomes |-> <<>>])
  /\ UNCHANGED <<inputs, now, pc, tasks, current_task, active_task,
                 cleanup_i, RUNNING, listener, issued, cleanup_log, written,
                 fault, extractor>>

NextBackend == CallBlockWebsites \/ CallUnblockWebsites

SpecBackend == InitBackend /\ [][NextBackend]_vars

-----------------------------------------------------------------------------
(* Properties of the backend *)

\* the line of the hosts file that blocks a site
RECURSIVE WithoutNewline(_)
WithoutNewline(line) ==
  IF line # <<>> /\ line[Len(line)] = "\n"
  THEN WithoutNewline(SubSeq(line, 1, Len(line) - 1)) ELSE line

HasEntry(content, site) ==
  \E k \in 1..Len(readlines(content)) :
     WithoutNewline(readlines(content)[k]) = redirect_ip \o Space \o site

\* this step is a call of the backend operation op
Called(op) ==
  /\ Len(cmds') = Len(cmds) + 1
  /\ cmds'[Len(cmds')].op = op

\* the website list of the call this step makes
Arg == cmds'[Len(cmds')].arg

\* C14: block_websites applied a second time leaves the hosts file as the
\* first application left it, and unblock_websites applied to sites none of
\* which has an entry leaves the hosts file as it was, on every platform.
C14_BackendIdempotent ==
  [][/\ Called("block_websites") => block_websites(system, hosts', Arg) = hosts'
     /\ (Called("unblock_websites")
         /\ \A k \in 1..Len(Arg) : ~ HasEntry(hosts, Arg[k]))
        => hosts' = hosts]_vars

\* the line is an entry that blocks one of the sites
IsEntryFor(line, sites) ==
  \E k \in 1..Len(sites) : WithoutNewline(line) = redirect_ip \o Space \o sites[k]

\* the lines of the hosts file that are not entries for one of the sites
OtherLines(content, sites) ==
  SelectSeq(readlines(content), LAMBDA line : ~ IsEntryFor(line, sites))

\* C20: unblock_websites removes only entries that block one of the named
\* sites; the entries for other sites and the lines the program did not write
\* are left as they were, in their order.
C20_UnblockTouchesOnlyNamed ==
  [][Called("unblock_websites") => OtherLines(hosts', Arg) = OtherLines(hosts, Arg)]_vars

-----------------------------------------------------------------------------
(* Properties of the parser *)

\* get_tasks has returned and its list has not been filtered yet
Expanded == pc = "filter_task_by_today"

\* the list get_tasks returned
task_list == tasks

\* the tasks of the list made from a template
MadeFrom(e) == {j \in 1..Len(task_list) : task_list[j].title = e.title}

\* the number of times a template occurs in the feed
Copies(e) == Cardinality({i \in 1..Len(feed) : feed[i] = e})

\* t is an instant the template's rule generates
RuleInstant(e, t) == t >= e.start_time /\ (t - e.start_time) % Period(e.repetition) = 0

\* the tasks made from the templates with a rule start at exactly the rule's
\* instants from the template's start to the horizon h, both included
ExpandedUpTo(h) ==
  \A k \in 1..Len(feed) :
    feed[k].repetition # NoRule =>
      /\ \A j \in MadeFrom(feed[k]) :
            LET s == task_list[j].start_time
            IN  RuleInstant(feed[k], s) /\ s <= h
      /\ \A t \in feed[k].start_time..h :
            RuleInstant(feed[k], t) =>
              Cardinality({j \in MadeFrom(feed[k]) : task_list[j].start_time = t})
                = Copies(feed[k])

\* C12: for a template with a rule, get_tasks creates one task per instant of
\* the rule in the closed interval from the template's start to the horizon
\* and none outside it, each with the template's duration, title and directive.
C12_OneOccurrencePerInstant ==
  Expanded =>
    /\ ExpandedUpTo(get_this_weeks_sunday(now))
    /\ \A k \in 1..Len(feed) :
         feed[k].repetition # NoRule =>
           \A j \in MadeFrom(feed[k]) :
             /\ task_list[j].end_time - task_list[j].start_time
                  = feed[k].end_time - feed[k].start_time
             /\ task_list[j].blocking_info = extract_blocking_info(feed[k].description)

\* a daily template has an occurrence at the horizon itself, and a weekly
\* template has two occurrences
C12_Witness ==
  /\ Expanded
  /\ \E j \in 1..Len(task_list) :
       /\ task_list[j].repetition = Daily
       /\ task_list[j].start_time = get_this_weeks_sunday(now)
  /\ \E i, j \in 1..Len(task_list) :
       /\ task_list[i].repetition = Weekly /\ task_list[j].repetition = Weekly
       /\ task_list[i].start_time < task_list[j].start_time

\* the last instant of the Sunday of the week of t (of t's day on a Sunday)
EndOfThisWeek(t) == (date(t) + (6 - weekday(t)) + 1) * DayLen - 1

\* C13: at every weekday and time of day the horizon of the expansion is the
\* end of the Sunday of the current week: the tasks made from a rule are its
\* instants up to that Sunday's end, and none starts after it.
C13_HorizonIsThisSunday == Expanded => ExpandedUpTo(EndOfThisWeek(now))

\* the window of the task holds an instant of the day of t
OnDayOf(task, t) ==
  /\ task.start_time <= task.end_time
  /\ date(task.start_time) <= date(t)
  /\ date(t) <= date(task.end_time)

\* C23: every task of get_tasks' list that blocks something and whose window
\* holds an instant of the current date is in the list filter_task_by_today
\* returns, where get_active_task can find it.
C23_TodaysTasksAreKept ==
  pc = "filtered" =>
    \A i \in 1..Len(get_tasks(feed, now)) :
      LET task == get_tasks(feed, now)[i]
      IN  (does_block_anything(task) /\ OnDayOf(task, now))
            => \E j \in 1..Len(tasks) : tasks[j] = task

-----------------------------------------------------------------------------
(* Properties of the polling loop *)

\* the tasks of the registry
Registry == 1..Len(tasks)

\* the sites the program wrote an entry for that still have one
StillBlocked == { site \in written : HasEntry(hosts, site) }

\* task i is in its window at t and passes does_block_anything's test
Matches(i, t) ==
  /\ tasks[i].start_time <= t /\ t <= tasks[i].end_time
  /\ apps_of(i) # <<>> /\ websites_of(i) # <<>>

\* C1: when main has left the loop and returned, by the flag or by a fault at
\* any statement of a tick, unblock_all_tasks has called unblock_websites with
\* the website list of every task of the registry, current or not.
C1_CleanupCoversRegistry ==
  pc = "done" =>
    \A i \in Registry :
      \E k \in 1..Len(cleanup_log) : cleanup_log[k].arg = websites_of(i)

\* a fault ended the loop after a task had been blocked, and the registry
\* holds a task for which no command was ever issued
C1_Witness ==
  /\ pc = "done"
  /\ fault # "none"
  /\ \E i \in Registry : <<"block_websites", i>> \in issued
  /\ \E i \in Registry : \A op \in {"block_apps", "block_websites"} : <<op, i>> \notin issued

\* C2: in every terminal state no site the program wrote an entry for is
\* still blocked in the hosts file.
C2_NothingLeftBlocked == pc = "done" => StillBlocked = {}

\* a fault struck after block_websites had written entries and before
\* current_task was assigned
C2_Witness ==
  /\ pc = "done"
  /\ fault = "Exception"
  /\ written # {}
  /\ current_task = 0
  /\ cmds # <<>> /\ cmds[Len(cmds)].op = "block_websites"

\* C3: when main has returned from the loop, the cleanup has called
\* unblock_websites exactly once for each task of the registry.
C3_CleanupExactlyOnce ==
  pc = "done" =>
    \A i \in Registry :
      Cardinality({k \in 1..Len(cleanup_log) : cleanup_log[k].task = i}) = 1

\* a graceful stop with two tasks in the registry, one of them blocked before
C3_Witness ==
  /\ pc = "done"
  /\ fault = "none"
  /\ Len(tasks) >= 2
  /\ issued # {}
  /\ Len(cleanup_log) >= 2

\* C4: when the fetch answers with a status other than 200 or a recurrence
\* rule cannot be expanded, main never reaches the loop and no block command
\* is issued.
C4_AbortBeforeBlocking ==
  (status_code # 200 \/ \E k \in 1..Len(feed) : feed[k].repetition = Malformed) =>
    /\ pc \in {"L80", "raised"}
    /\ issued = {}
    /\ hosts = InitialHosts

\* the feed was fetched, its first event is a task that would be blocked, and
\* the rule of its second event failed
C4_Witness ==
  /\ pc = "raised"
  /\ status_code = 200
  /\ Len(feed) = 2
  /\ feed[1].repetition = NoRule
  /\ does_block_anything(Task(feed[1].title, feed[1].start_time, feed[1].end_time,
                              feed[1].description, feed[1].repetition))
  /\ feed[2].repetition = Malformed

\* C5: once RUNNING is false the loop starts no further tick, and main, which
\* finishes the tick in progress, goes on to the cleanup and returns.
C5_StopEndsLoop ==
  /\ [][(~ RUNNING) => ~ (pc # "L90" /\ pc' = "L90")]_vars
  /\ ((~ RUNNING) ~> (pc = "done"))

\* the flag was cleared during a tick that blocked a new task; that tick was
\* finished (current_task assigned), no other was started, and main returned
C5_Witness ==
  /\ pc = "done"
  /\ ~ RUNNING
  /\ fault = "none"
  /\ current_task # 0
  /\ cmds # <<>> /\ cmds[Len(cmds)].op = "block_websites"

\* C6: get_active_task returns no task or the first task in registry order
\* that is in its window at that instant and eligible; when two such tasks
\* overlap it returns one no later in the registry than the earlier of them.
C6_FirstMatch ==
  [][(pc = "L90" /\ pc' = "L92") =>
       /\ active_task' \in 0..Len(tasks)
       /\ active_task' # 0 =>
            /\ Matches(active_task', now)
            /\ \A j \in 1..(active_task' - 1) : ~ Matches(j, now)
       /\ \A a, b \in Registry :
            (a < b /\ Matches(a, now) /\ Matches(b, now)) =>
               (active_task' # 0 /\ active_task' <= a)]_vars

\* two eligible tasks are both in their windows and the first was returned
C6_Witness ==
  /\ pc = "L92"
  /\ Len(tasks) = 2
  /\ Matches(1, now) /\ Matches(2, now)
  /\ active_task = 1

\* C7: current_task (and the task get_active_task returned) is None or a task
\* of the registry whose apps list and websites list are both non-empty.
C7_CurrentIsEligible ==
  \A r \in {current_task, active_task} :
    /\ r \in 0..Len(tasks)
    /\ r # 0 => (apps_of(r) # <<>> /\ websites_of(r) # <<>>)

\* a task with an empty directive is in its window, earlier in the registry
\* than the current task, and was passed over
C7_Witness ==
  /\ current_task # 0
  /\ \E j \in 1..(current_task - 1) :
       /\ is_active(tasks[j], now)
       /\ apps_of(j) = <<>> /\ websites_of(j) = <<>>

\* the directive block of a task's description names one key and not the other
NamesOneKeyOnly(task) ==
  LET part == desc_important_part(Lower(clean_description(task.description)))
  IN  Contains(part, AppsKey) # Contains(part, WebsitesKey)

\* C8: a task whose directive block names only apps or only websites never
\* becomes current and no block command is issued for it.
C8_OneKeyNeverActivated ==
  \A i \in Registry :
    NamesOneKeyOnly(tasks[i]) =>
      /\ current_task # i
      /\ <<"block_apps", i>> \notin issued
      /\ <<"block_websites", i>> \notin issued

\* the tasks of a list that start or end on the day d, in the list's order
KeptOn(ts, d) ==
  SelectSeq(ts, LAMBDA task : date(task.start_time) = d \/ date(task.end_time) = d)

\* C15: the registry built at start-up holds exactly the tasks of get_tasks'
\* list whose start or whose end falls on the date of the start-up, in the
\* order of that list, and no step of the polling loop or of the cleanup
\* changes it.
C15_RegistryIsTodaysTasks ==
  /\ [][(pc = "L80" /\ pc' = "L88")
          => tasks' = KeptOn(get_tasks(feed, now), date(now))]_vars
  /\ [][pc # "L80" => tasks' = tasks]_vars

\* the loop has blocked a task; the registry holds a task that started the
\* day before and ends today, and occurrences of other days were dropped
C15_Witness ==
  /\ pc = "L107"
  /\ current_task # 0
  /\ Len(tasks) < Len(get_tasks(feed, StartNow))
  /\ \E i \in Registry :
       /\ date(tasks[i].start_time) # date(StartNow)
       /\ date(tasks[i].end_time) = date(StartNow)

\* the last backend command of the tick found the kill command missing
KillCommandMissing ==
  /\ cmds # <<>>
  /\ cmds[Len(cmds)].op = "block_apps"
  /\ \E j \in 1..Len(cmds[Len(cmds)].outcomes) :
       cmds[Len(cmds)].outcomes[j] = "FileNotFoundError"

\* the main thread executes the statement at position p (and no fault is
\* injected there)
MainStep(p) == pc = p /\ pc' # p /\ fault' # "Exception"

\* the commands of the tick in progress, without the outcomes
Issued(log) == [k \in 1..Len(log) |-> <<log[k].op, log[k].arg>>]

\* the unblocking of a task that has ended: lines 101 and 102
UnblocksCurrent ==
  /\ MainStep("L101") =>
       /\ pc' = "L102"
       /\ Issued(cmds') = <<<<"unblock_websites", websites_of(current_task)>>>>
       /\ current_task' = current_task
  /\ MainStep("L102") =>
       /\ pc' = "L107"
       /\ current_task' = 0
       /\ cmds' = cmds
  /\ MainStep("L107") => cmds' = cmds /\ current_task' = current_task

\* C16: on every tick in which current_task is set and no longer in its
\* window, the loop issues unblock_websites with its website list and sets
\* current_task to None, whatever other tasks are active.
C16_EndedTaskIsUnblocked ==
  [][/\ (MainStep("L92") /\ current_task # 0
         /\ ~ is_active(tasks[current_task], now)) => pc' = "L101"
     /\ UnblocksCurrent]_vars

\* the blocking of a new task up to the call of block_apps: lines 92 and 95
BlocksAppsOfNew ==
  /\ MainStep("L92") =>
       ((active_task # 0 /\ active_task # current_task) <=> pc' = "L95")
  /\ MainStep("L95") =>
       /\ cmds = <<>>
       /\ Issued(cmds') = <<<<"block_apps", apps_of(active_task)>>>>
       /\ current_task' = current_task /\ hosts' = hosts

\* after block_apps has returned: lines 96 and 97
BlocksWebsitesOfNew ==
  /\ MainStep("L96") =>
       /\ pc' = "L97"
       /\ Issued(cmds') = <<<<"block_apps", apps_of(active_task)>>,
                            <<"block_websites", websites_of(active_task)>>>>
       /\ current_task' = current_task
  /\ MainStep("L97") =>
       /\ pc' = "L107"
       /\ current_task' = active_task
       /\ cmds' = cmds
  /\ MainStep("L107") => cmds' = cmds /\ current_task' = current_task

\* C17 as stated: on every tick in which get_active_task returns a task other
\* than current_task, the loop issues block_apps and then block_websites for
\* it, then assigns current_task, and issues nothing else.
C17_BlocksAppsThenWebsites ==
  [][/\ BlocksAppsOfNew
     /\ MainStep("L95") => pc' = "L96"
     /\ BlocksWebsitesOfNew]_vars

\* C17 as amended: block_websites and the assignment follow when block_apps
\* returns; when block_apps raises SystemError the tick ends there, with
\* current_task as it was, and the loop is left through the handler.
C17_BlocksAppsThenWebsitesIfReturned ==
  [][/\ BlocksAppsOfNew
     /\ MainStep("L95") =>
          \/ pc' = "L96" /\ fault' = "none"
          \/ pc' = "L113" /\ fault' = "SystemError" /\ KillCommandMissing'
     /\ BlocksWebsitesOfNew]_vars

\* a tick has replaced a current task whose websites had been blocked by the
\* task get_active_task returned, and has issued the two commands
C17_Witness ==
  /\ pc = "L107"
  /\ current_task # 0 /\ current_task = active_task
  /\ Len(cmds) = 2
  /\ cmds[1].op = "block_apps" /\ cmds[2].op = "block_websites"
  /\ \E j \in Registry : j # current_task /\ <<"block_websites", j>> \in issued

\* the steady-state tick from line 105 on
ReassertsApps ==
  /\ MainStep("L105") =>
       /\ cmds = <<>>
       /\ Issued(cmds') = <<<<"block_apps", apps_of(current_task)>>>>
       /\ current_task' = current_task /\ hosts' = hosts
  /\ MainStep("L107") => cmds' = cmds /\ current_task' = current_task

\* C18 as stated: on every tick in which the task get_active_task returned
\* is current_task, the loop issues block_apps with its apps once, issues
\* neither block_websites nor unblock_websites, and leaves current_task.
C18_SteadyStateReassertsApps ==
  [][/\ (MainStep("L92") /\ active_task # 0 /\ active_task = current_task)
          => pc' = "L105"
     /\ ReassertsApps]_vars

\* C18 as amended: the same, on every tick in which the task get_active_task
\* returned is current_task and is still in its window when line 99 tests it.
C18_SteadyStateWhileInWindow ==
  [][/\ (MainStep("L92") /\ active_task # 0 /\ active_task = current_task
          /\ is_active(tasks[current_task], now)) => pc' = "L105"
     /\ ReassertsApps]_vars

\* a steady-state tick has re-issued block_apps, which found no process to
\* kill, and nothing else
C18_Witness ==
  /\ pc = "L107"
  /\ current_task # 0 /\ current_task = active_task
  /\ Len(cmds) = 1
  /\ cmds[1].op = "block_apps" /\ cmds[1].arg = apps_of(current_task)
  /\ cmds[1].outcomes = <<"CalledProcessError">>
  /\ <<"block_websites", current_task>> \in issued

\* the website list of current_task, none when it is None
CurrentWebsites ==
  IF current_task = 0 THEN {}
  ELSE {websites_of(current_task)[k] : k \in 1..Len(websites_of(current_task))}

\* C19: at every tick boundary the sites the program has blocked and not yet
\* unblocked are sites of current_task's website list; none when current_task
\* is None.
C19_BlockedWithinCurrent ==
  pc = "L88" => StillBlocked \subseteq CurrentWebsites

\* C21: no task of the registry becomes current twice in a run: block_websites
\* is never issued for a task for which it has been issued before.
C21_BlockedAtMostOnce ==
  [][MainStep("L96") => <<"block_websites", active_task>> \notin issued]_vars

\* the process ends when main has returned and the thread started on line 84,
\* which is not a daemon, has returned from input()
NoThreadBlocked == listener # "waiting"

\* C22: when main has left the loop through the handler of line 111 and the
\* cleanup has run, no thread of the program is left waiting: the program
\* ends without the stop trigger.
C22_FaultExitEndsProgram ==
  (pc = "done" /\ fault # "none") => NoThreadBlocked

\* C11 as stated: no backend operation raises to the loop, the kill command
\* being unavailable included; the loop is never ended by a backend exception.
C11_BackendNeverRaises == fault # "SystemError"

\* C11 as amended: block_websites and unblock_websites never raise to the
\* loop, and block_apps absorbs the failure of an individual app; block_apps
\* raises SystemError to the loop exactly when the kill command is missing.
C11_OnlyMissingKillRaises == (fault = "SystemError") <=> KillCommandMissing

\* a steady-state tick found the kill command missing; the handler of line
\* 111 ran the cleanup and main returned
C11_Witness ==
  /\ pc = "done"
  /\ fault = "SystemError"
  /\ current_task # 0
  /\ Len(cmds) = 1
  /\ cleanup_log # <<>>

-----------------------------------------------------------------------------
(* Properties of the directive extractor *)

\* the description as extract_blocking_info searches it
Cleaned == Lower(clean_description(desc))

RECURSIVE CountFrom(_, _, _)
CountFrom(s, sub, i) ==
  LET j == Find(s, sub, i)
  IN  IF j = -1 THEN 0 ELSE 1 + CountFrom(s, sub, j + Len(sub))

\* str.count(sub)
Count(s, sub) == CountFrom(s, sub, 0)

\* the text between the first two markers, trimmed
DelimitedBlock(s) ==
  LET first == Find(s, Marker, 0)
      second == Find(s, Marker, first + Len(Marker))
  IN  Strip(Slice(s, first + Len(Marker), second))

\* the trimmed comma-separated tokens that follow a key up to the next semicolon
TokensAfter(block, key) ==
  LET from == Find(block, key, 0) + Len(key)
      parts == Split(Slice(block, from, Find(block, Semicolon, from)), Comma)
  IN  [i \in 1..Len(parts) |-> Strip(parts[i])]

\* the key occurs in the block and a semicolon follows it
Terminated(block, key) ==
  /\ Contains(block, key)
  /\ Find(block, Semicolon, Find(block, key, 0) + Len(key)) # -1

\* C9: extract_blocking_info returns the empty directive for every description
\* with fewer than two markers and for every description whose delimited block
\* is empty.
C9_EmptyWithoutBlock ==
  (ex_pc = "returned"
   /\ (Count(Cleaned, Marker) < 2 \/ DelimitedBlock(Cleaned) = <<>>))
  => info = EmptyInfo

\* C10: for a block with both keys, each followed by a semicolon, in either
\* order, the apps are the tokens after the apps key up to the next semicolon
\* and the websites are the tokens after the websites key up to the next
\* semicolon.
C10_BothKeysAnyOrder ==
  (ex_pc = "returned"
   /\ Count(Cleaned, Marker) >= 2
   /\ Terminated(DelimitedBlock(Cleaned), AppsKey)
   /\ Terminated(DelimitedBlock(Cleaned), WebsitesKey))
  => /\ info.block_apps = TokensAfter(DelimitedBlock(Cleaned), AppsKey)
     /\ info.block_websites = TokensAfter(DelimitedBlock(Cleaned), WebsitesKey)

====
